---------------------------- MODULE Spec2Model ----------------------------
(***************************************************************************)
(* Model of mmark's xml2rfc.go: the citation resolver (referenceFile), the *)
(* citation catalog (countCitationsAndSort), the entity encoder            *)
(* (writeEntity), the markup strippers (sanitizeXML, writeSanitizeXML) and *)
(* the title-block emitters (titleBlockTOMLAuthor, titleBlockTOMLKeyword,  *)
(* titleBlockTOMLPI).                                                      *)
(*                                                                         *)
(* A []byte or a string that the code indexes is a sequence of one-byte    *)
(* strings; Go's 0-based s[i] is s[i + 1] here.  A string the code only    *)
(* compares or concatenates as a whole is a TLA+ string.                   *)
(***************************************************************************)
EXTENDS Integers, Sequences, FiniteSets, TLC

VARIABLES
    op,     \* the function being called
    arg,    \* its argument(s), as passed by the caller
    pc,     \* position of the call: "call", "scan", "stripped", "done"
    scan,   \* sanitizeXML: the caller's buffer and the loop's locals [s, i, j, inTag]
    ret,    \* the returned value
    out,    \* the bytes.Buffer the function writes to
    enc     \* the bytes.Buffer the stripped text is entity-encoded into

vars == <<op, arg, pc, scan, ret, out, enc>>

None == "none"

\* All sequences over S of length at most n.
SeqsUpTo(S, n) == UNION {[1..k -> S] : k \in 0..n}

\* s[from:] of Go, for 0 <= from <= len(s).
SliceFrom(s, from) == SubSeq(s, from + 1, Len(s))

\* s[:to] of Go, for 0 <= to <= len(s).
SliceTo(s, to) == SubSeq(s, 1, to)

(***************************************************************************)
(* Entity encoder.                                                         *)
(***************************************************************************)
entityConvert ==
    [c \in {"<", ">", "&"} |->
        CASE c = "<" -> <<"&", "l", "t", ";">>
          [] c = ">" -> <<"&", "g", "t", ";">>
          [] c = "&" -> <<"&", "a", "m", "p", ";">>]

\* A lookup table that lost its '&' entry.
writeEntityByteNoAmp(o, b) ==
    IF b \in {"<", ">"} THEN o \o entityConvert[b] ELSE Append(o, b)

\* The body of writeEntity's loop for the byte b.
writeEntityByte(o, b) ==
    IF b \in DOMAIN entityConvert THEN o \o entityConvert[b] ELSE Append(o, b)

RECURSIVE writeEntityFrom(_, _, _)
writeEntityFrom(o, text, i) ==
    IF i < Len(text)
    THEN writeEntityFrom(writeEntityByte(o, text[i + 1]), text, i + 1)
    ELSE o

writeEntity(o, text) == writeEntityFrom(o, text, 0)

(***************************************************************************)
(* Markup strippers.                                                       *)
(***************************************************************************)
\* An iteration that copies the byte before it looks at the tag state.
sanitizeIterCopyFirst(st) ==
    LET c == st.s[st.i + 1]
        copied == IF ~st.inTag
                  THEN [st EXCEPT !.s[st.j + 1] = c, !.j = st.j + 1]
                  ELSE st IN
    IF c = "<" THEN [copied EXCEPT !.inTag = TRUE, !.i = st.i + 1]
    ELSE IF c = ">" THEN [copied EXCEPT !.inTag = FALSE, !.i = st.i + 1]
    ELSE [copied EXCEPT !.i = st.i + 1]

\* An iteration that writes one slot ahead of j.
sanitizeIterWriteAhead(st) ==
    LET c == st.s[st.i + 1] IN
    IF c = "<" THEN [st EXCEPT !.inTag = TRUE, !.i = st.i + 1]
    ELSE IF c = ">" THEN [st EXCEPT !.inTag = FALSE, !.i = st.i + 1]
    ELSE IF ~st.inTag
         THEN [st EXCEPT !.s[IF st.j + 2 <= Len(st.s) THEN st.j + 2 ELSE st.j + 1] = c,
                         !.j = st.j + 1, !.i = st.i + 1]
         ELSE [st EXCEPT !.i = st.i + 1]

\* One iteration of sanitizeXML's loop, i++ included.
\* st = [s, i, j, inTag]: the buffer and the locals.
sanitizeIter(st) ==
    LET c == st.s[st.i + 1] IN
    IF c = "<" THEN [st EXCEPT !.inTag = TRUE, !.i = st.i + 1]
    ELSE IF c = ">" THEN [st EXCEPT !.inTag = FALSE, !.i = st.i + 1]
    ELSE IF ~st.inTag
         THEN [st EXCEPT !.s[st.j + 1] = c, !.j = st.j + 1, !.i = st.i + 1]
         ELSE [st EXCEPT !.i = st.i + 1]

sanitizeStart(s) == [s |-> s, i |-> 0, j |-> 0, inTag |-> FALSE]

RECURSIVE sanitizeLoop(_)
sanitizeLoop(st) ==
    IF st.i < Len(st.s) THEN sanitizeLoop(sanitizeIter(st)) ELSE st

\* sanitizeXML(s): the returned slice s[:j].
sanitizeXML(s) == LET st == sanitizeLoop(sanitizeStart(s)) IN SliceTo(st.s, st.j)

\* A scan that never leaves a tag once it is in one.
writeSanitizeIterNoClose(st, s) ==
    LET c == s[st.i + 1] IN
    IF c = "<" THEN [st EXCEPT !.inTag = TRUE, !.i = st.i + 1]
    ELSE IF c = ">" THEN [st EXCEPT !.i = st.i + 1]
    ELSE IF ~st.inTag
         THEN [st EXCEPT !.out = Append(st.out, c), !.i = st.i + 1]
         ELSE [st EXCEPT !.i = st.i + 1]

\* One iteration of writeSanitizeXML's loop, i++ included.
\* st = [out, i, inTag].
writeSanitizeIter(st, s) ==
    LET c == s[st.i + 1] IN
    IF c = "<" THEN [st EXCEPT !.inTag = TRUE, !.i = st.i + 1]
    ELSE IF c = ">" THEN [st EXCEPT !.inTag = FALSE, !.i = st.i + 1]
    ELSE IF ~st.inTag
         THEN [st EXCEPT !.out = Append(st.out, c), !.i = st.i + 1]
         ELSE [st EXCEPT !.i = st.i + 1]

RECURSIVE writeSanitizeLoop(_, _)
writeSanitizeLoop(st, s) ==
    IF st.i < Len(s) THEN writeSanitizeLoop(writeSanitizeIter(st, s), s) ELSE st

\* writeSanitizeXML(out, s): the sink after the call.
writeSanitizeXML(o, s) ==
    writeSanitizeLoop([out |-> o, i |-> 0, inTag |-> FALSE], s).out

(***************************************************************************)
(* Stripping a text and entity-encoding what is left.                      *)
(***************************************************************************)
MaxLen == 4

StripBytes == {"<", ">", "&", "a"}

StripInputs == SeqsUpTo(StripBytes, MaxLen)

InitStrip ==
    /\ op \in {"sanitizeXML", "writeSanitizeXML"}
    /\ arg \in StripInputs
    /\ pc = "call"
    /\ scan = None
    /\ ret = None
    /\ out = <<>>
    /\ enc = <<>>

\* sanitizeXML is entered: inTag := false, j := 0, i := 0.
SanitizeEnter ==
    /\ pc = "call" /\ op = "sanitizeXML"
    /\ scan' = sanitizeStart(arg)
    /\ pc' = "scan"
    /\ UNCHANGED <<op, arg, ret, out, enc>>

\* One iteration of sanitizeXML's loop.
SanitizeStep ==
    /\ pc = "scan" /\ scan.i < Len(scan.s)
    /\ scan' = sanitizeIter(scan)
    /\ UNCHANGED <<op, arg, pc, ret, out, enc>>

\* return s[:j]
SanitizeReturn ==
    /\ pc = "scan" /\ ~(scan.i < Len(scan.s))
    /\ ret' = SliceTo(scan.s, scan.j)
    /\ pc' = "stripped"
    /\ UNCHANGED <<op, arg, scan, out, enc>>

\* writeSanitizeXML(out, s), the whole call.
WriteSanitizeXML ==
    /\ pc = "call" /\ op = "writeSanitizeXML"
    /\ out' = writeSanitizeXML(out, arg)
    /\ pc' = "stripped"
    /\ UNCHANGED <<op, arg, scan, ret, enc>>

\* The text the stripper produced.
Stripped == IF op = "sanitizeXML" THEN ret ELSE out

\* writeEntity(enc, stripped text), the whole call.
WriteEntity ==
    /\ pc = "stripped"
    /\ enc' = writeEntity(enc, Stripped)
    /\ pc' = "done"
    /\ UNCHANGED <<op, arg, scan, ret, out>>

NextStrip ==
    \/ SanitizeEnter
    \/ SanitizeStep
    \/ SanitizeReturn
    \/ WriteSanitizeXML
    \/ WriteEntity

SpecStrip == InitStrip /\ [][NextStrip]_vars

Range(s) == {s[k] : k \in DOMAIN s}

StripDone == pc \in {"stripped", "done"}

\* The 0-based index of the first '>' of s at or after from, or -1.
RECURSIVE NextClose(_, _)
NextClose(s, from) ==
    IF from >= Len(s) THEN -1
    ELSE IF s[from + 1] = ">" THEN from
    ELSE NextClose(s, from + 1)

\* s without its tags: every substring from a '<' to the next '>' is taken
\* out, an unterminated one to the end of s; every other byte stays.
RECURSIVE StripTags(_)
StripTags(s) ==
    IF s = <<>> THEN <<>>
    ELSE IF Head(s) = "<"
         THEN IF NextClose(s, 0) = -1
              THEN <<>>
              ELSE StripTags(SliceFrom(s, NextClose(s, 0) + 1))
         ELSE <<Head(s)>> \o StripTags(Tail(s))

NotClose(c) == c # ">"

\* C4: sanitizeXML(s) and writeSanitizeXML(out, s) on an empty sink give the
\* same bytes, and while sanitizeXML scans, every byte it has yet to read
\* (index i and above) is still the byte the caller passed.
SanitizeAgreesWithWriteSanitize ==
    /\ pc = "scan" =>
          \A k \in (scan.i + 1)..Len(arg) : scan.s[k] = arg[k]
    /\ (StripDone /\ op = "sanitizeXML") => ret = writeSanitizeXML(<<>>, arg)
    /\ (StripDone /\ op = "writeSanitizeXML") => out = sanitizeXML(arg)

\* C4 witness: sanitizeXML returned a non-empty text after overwriting its
\* buffer in place.
SanitizeOverwroteInPlace ==
    /\ pc = "stripped" /\ op = "sanitizeXML"
    /\ scan.s # arg
    /\ ret # <<>>

\* C5 as stated: the stripper's output is the input without its tags, every
\* byte outside a tag copied.
StripIsTagRemoval == StripDone => Stripped = StripTags(arg)

\* C5 amended: the stripper's output is the input without its tags and
\* without any '>' that stands outside a tag; every other byte outside a tag
\* is copied, in input order.
StripIsTagAndCloseRemoval ==
    StripDone => Stripped = SelectSeq(StripTags(arg), NotClose)

\* C5 witness: a text with a '>' outside every tag was stripped to a
\* non-empty text.
StripDroppedStrayClose ==
    /\ pc = "stripped"
    /\ ">" \in Range(StripTags(arg))
    /\ Stripped # <<>>

\* The entity that starts at byte k of s, if one does.
EntityAt(s, k) ==
    \E c \in DOMAIN entityConvert :
        /\ k + Len(entityConvert[c]) - 1 <= Len(s)
        /\ SubSeq(s, k, k + Len(entityConvert[c]) - 1) = entityConvert[c]

\* No '<', no '>', and no '&' other than the first byte of an entity.
NoBareMarkup(s) ==
    \A k \in DOMAIN s :
        /\ s[k] \notin {"<", ">"}
        /\ s[k] = "&" => EntityAt(s, k)

\* C7: the entity-encoded stripped text holds no '<', no '>' and no '&' that
\* does not start &amp;, &lt; or &gt;.
EncodedStripHasNoBareMarkup == pc = "done" => NoBareMarkup(enc)

\* C7 witness: a text that lost a tag and kept an '&' was encoded.
EncodedStripWithAmp ==
    /\ pc = "done"
    /\ "&" \in Range(Stripped)
    /\ "<" \in Range(arg)

\* C10: stripping the stripped text, with either stripper, gives it back.
StripIdempotent ==
    StripDone =>
        /\ sanitizeXML(Stripped) = Stripped
        /\ writeSanitizeXML(<<>>, Stripped) = Stripped

\* C10 witness: a stripper took something out and left something.
StripTookSomething ==
    /\ pc = "stripped"
    /\ Stripped # arg
    /\ Stripped # <<>>

(***************************************************************************)
(* Citation resolver.                                                      *)
(***************************************************************************)
CitationsID ==
    <<"h", "t", "t", "p", ":", "/", "/", "x", "m", "l", "2", "r", "f", "c",
      ".", "i", "e", "t", "f", ".", "o", "r", "g", "/", "p", "u", "b", "l",
      "i", "c", "/", "r", "f", "c", "/", "b", "i", "b", "x", "m", "l", "3",
      "/">>

CitationsRFC ==
    <<"h", "t", "t", "p", ":", "/", "/", "x", "m", "l", "2", "r", "f", "c",
      ".", "i", "e", "t", "f", ".", "o", "r", "g", "/", "p", "u", "b", "l",
      "i", "c", "/", "r", "f", "c", "/", "b", "i", "b", "x", "m", "l", "/">>

referenceRFC ==
    <<"r", "e", "f", "e", "r", "e", "n", "c", "e", ".", "R", "F", "C", ".">>

referenceID ==
    <<"r", "e", "f", "e", "r", "e", "n", "c", "e", ".", "I", "-", "D", ".",
      "d", "r", "a", "f", "t", "-">>

referenceIDLatest ==
    <<"r", "e", "f", "e", "r", "e", "n", "c", "e", ".", "I", "-", "D", ".">>

ext == <<".", "x", "m", "l">>

DigitChars == <<"0", "1", "2", "3", "4", "5", "6", "7", "8", "9">>

\* The decimal digits of n >= 0, no padding.
RECURSIVE Itoa(_)
Itoa(n) ==
    IF n < 10 THEN <<DigitChars[n + 1]>>
    ELSE Itoa(n \div 10) \o <<DigitChars[(n % 10) + 1]>>

\* A formatter that keeps the last two digits only.
SprintfPad2Truncating(n) ==
    IF n < 0 THEN <<"-">> \o Itoa(-n)
    ELSE <<DigitChars[((n \div 10) % 10) + 1], DigitChars[(n % 10) + 1]>>

\* fmt.Sprintf("%02d", n): width 2, zero-padded, the sign counted in the width.
SprintfPad2(n) ==
    IF n < 0 THEN <<"-">> \o Itoa(-n)
    ELSE IF Len(Itoa(n)) < 2 THEN <<"0">> \o Itoa(n)
    ELSE Itoa(n)

\* A resolver whose length check lets a 3-byte link through.
referenceFileShortLink(c) ==
    IF Len(c.link) < 3 THEN <<>>
    ELSE IF SliceTo(c.link, 3) = <<"R", "F", "C">>
         THEN CitationsRFC \o referenceRFC \o SliceFrom(c.link, 3) \o ext
    ELSE IF SliceTo(c.link, 3) = <<"I", "-", "D">>
         THEN IF c.seq # -1
              THEN CitationsID \o referenceID \o SubSeq(c.link, 5, Len(c.link))
                       \o (<<"-">> \o SprintfPad2(c.seq)) \o ext
              ELSE CitationsID \o referenceIDLatest
                       \o SubSeq(c.link, 5, Len(c.link)) \o ext
    ELSE <<>>

\* referenceFile(c), c = [link, seq].
referenceFile(c) ==
    IF Len(c.link) < 4 THEN <<>>
    ELSE IF SliceTo(c.link, 3) = <<"R", "F", "C">>
         THEN CitationsRFC \o referenceRFC \o SliceFrom(c.link, 3) \o ext
    ELSE IF SliceTo(c.link, 3) = <<"I", "-", "D">>
         THEN IF c.seq # -1
              THEN CitationsID \o referenceID \o SliceFrom(c.link, 4)
                       \o (<<"-">> \o SprintfPad2(c.seq)) \o ext
              ELSE CitationsID \o referenceIDLatest \o SliceFrom(c.link, 4) \o ext
    ELSE <<>>

MaxSuffix == 2

MaxSeq == 2

LinkPrefixes == SeqsUpTo({"R", "F", "C"}, 3) \cup SeqsUpTo({"I", "-", "D"}, 3)

LinkSuffixes == SeqsUpTo({".", "x", "2"}, MaxSuffix)

Links == {p \o s : p \in LinkPrefixes, s \in LinkSuffixes}

SeqValues == (-2..MaxSeq) \cup {9, 10, 99, 100, 123}

InitRef ==
    /\ op = "referenceFile"
    /\ arg \in [link : Links, seq : SeqValues]
    /\ pc = "call"
    /\ scan = None
    /\ ret = None
    /\ out = <<>>
    /\ enc = <<>>

\* referenceFile(c), the whole call.
ReferenceFile ==
    /\ pc = "call" /\ op = "referenceFile"
    /\ ret' = referenceFile(arg)
    /\ pc' = "done"
    /\ UNCHANGED <<op, arg, scan, out, enc>>

NextRef == ReferenceFile

SpecRef == InitRef /\ [][NextRef]_vars

\* The number a digit string writes.
RECURSIVE DecimalValue(_)
DecimalValue(d) ==
    IF d = <<>> THEN 0
    ELSE 10 * DecimalValue(SliceTo(d, Len(d) - 1))
             + (CHOOSE v \in 0..9 : DigitChars[v + 1] = d[Len(d)])

\* d is n in decimal, zero-padded to two digits and no further.
IsPadded2(d, n) ==
    /\ Len(d) >= 2
    /\ Range(d) \subseteq Range(DigitChars)
    /\ DecimalValue(d) = n
    /\ Len(d) > 2 => d[1] # "0"

\* ret is left \o middle \o right for some middle that is n padded.
HasPaddedSeq(r, left, right, n) ==
    /\ Len(r) >= Len(left) + Len(right) + 2
    /\ SliceTo(r, Len(left)) = left
    /\ SliceFrom(r, Len(r) - Len(right)) = right
    /\ IsPadded2(SubSeq(r, Len(left) + 1, Len(r) - Len(right)), n)

RefDone == pc = "done" /\ op = "referenceFile"

\* C1: for a link of at least 4 bytes, an RFC link resolves to
\* CitationsRFC + "reference.RFC." + link[3:] + ".xml" whatever the sequence;
\* an I-D link with sequence s >= 0 to CitationsID + "reference.I-D.draft-" +
\* link[4:] + "-" + s padded to at least two digits + ".xml"; an I-D link with
\* sequence -1 to CitationsID + "reference.I-D." + link[4:] + ".xml".
ReferenceFileBuildsURL ==
    (RefDone /\ Len(arg.link) >= 4) =>
        /\ SliceTo(arg.link, 3) = <<"R", "F", "C">> =>
              ret = CitationsRFC \o referenceRFC
                        \o SubSeq(arg.link, 4, Len(arg.link)) \o ext
        /\ (SliceTo(arg.link, 3) = <<"I", "-", "D">> /\ arg.seq >= 0) =>
              HasPaddedSeq(ret,
                           CitationsID \o referenceID
                               \o SubSeq(arg.link, 5, Len(arg.link)) \o <<"-">>,
                           ext, arg.seq)
        /\ (SliceTo(arg.link, 3) = <<"I", "-", "D">> /\ arg.seq = -1) =>
              ret = CitationsID \o referenceIDLatest
                        \o SubSeq(arg.link, 5, Len(arg.link)) \o ext

\* C1 witness: an I-D link with a three-digit sequence was resolved.
ReferenceFileThreeDigitSeq ==
    /\ RefDone
    /\ Len(arg.link) > 4
    /\ SliceTo(arg.link, 3) = <<"I", "-", "D">>
    /\ arg.seq = 123
    /\ ret # <<>>

\* C6: referenceFile returns the empty string for a link shorter than 4
\* bytes and for a link whose first three bytes are neither "RFC" nor "I-D",
\* whatever the sequence; for every other citation it returns a non-empty one.
ReferenceFileEmptyIffMalformed ==
    RefDone =>
        (ret = <<>> <=>
            \/ Len(arg.link) < 4
            \/ SliceTo(arg.link, 3) \notin {<<"R", "F", "C">>, <<"I", "-", "D">>})

\* C6 witness: the bare 3-byte link "RFC" resolved to the empty string.
ReferenceFileBareRFC ==
    /\ RefDone
    /\ arg.link = <<"R", "F", "C">>
    /\ ret = <<>>

(***************************************************************************)
(* Citation catalog.                                                       *)
(***************************************************************************)
\* The value of a byte of a key.
ByteCode(b) == CASE b = "2" -> 50 [] b = "R" -> 82 [] b = "a" -> 97

\* Go's a < b on strings: byte-wise, a proper prefix first.
RECURSIVE StringLess(_, _)
StringLess(a, b) ==
    IF b = <<>> THEN FALSE
    ELSE IF a = <<>> THEN TRUE
    ELSE IF ByteCode(Head(a)) # ByteCode(Head(b))
         THEN ByteCode(Head(a)) < ByteCode(Head(b))
    ELSE StringLess(Tail(a), Tail(b))

\* keys, sorted, with k put in its place.
RECURSIVE InsertKey(_, _)
InsertKey(keys, k) ==
    IF keys = <<>> THEN <<k>>
    ELSE IF StringLess(k, Head(keys)) THEN <<k>> \o keys
    ELSE <<Head(keys)>> \o InsertKey(Tail(keys), k)

\* A sort that is not there.
SortStringsMissing(keys) == keys

\* sort.Strings(keys): keys in increasing order.
RECURSIVE SortStrings(_)
SortStrings(keys) ==
    IF keys = <<>> THEN <<>>
    ELSE InsertKey(SortStrings(Tail(keys)), Head(keys))

\* A loop body that counts every citation that is not informative as normative.
countCitationsStepElse(acc, k, c) ==
    [refi |-> IF c.typ = "i" THEN acc.refi + 1 ELSE acc.refi,
     refn |-> IF c.typ # "i" THEN acc.refn + 1 ELSE acc.refn,
     keys |-> Append(acc.keys, k)]

\* The body of countCitationsAndSort's loop for the entry k, c.
countCitationsStep(acc, k, c) ==
    [refi |-> IF c.typ = "i" THEN acc.refi + 1 ELSE acc.refi,
     refn |-> IF c.typ = "n" THEN acc.refn + 1 ELSE acc.refn,
     keys |-> Append(acc.keys, k)]

\* The loop over the map, which Go walks in the order `order`.
RECURSIVE countCitationsLoop(_, _, _)
countCitationsLoop(acc, citations, order) ==
    IF order = <<>> THEN acc
    ELSE countCitationsLoop(countCitationsStep(acc, Head(order), citations[Head(order)]),
                            citations, Tail(order))

\* countCitationsAndSort(citations), the map walked in the order `order`.
countCitationsAndSort(citations, order) ==
    LET acc == countCitationsLoop([refi |-> 0, refn |-> 0, keys |-> <<>>],
                                  citations, order) IN
    <<acc.refi, acc.refn, SortStrings(acc.keys)>>

MaxCitations == 3

\* Keys with a digit, an upper-case and a lower-case byte, the empty key, and
\* keys that are proper prefixes of others.
Keys ==
    {<<>>, <<"2">>, <<"R">>, <<"R", "2">>, <<"R", "a">>, <<"a">>, <<"a", "R">>}

\* 'i', 'n' and a byte that is neither.
Types == {"i", "n", "x"}

CitationMaps ==
    UNION {[D -> [typ : Types]] : D \in {D \in SUBSET Keys : Cardinality(D) <= MaxCitations}}

\* The orders in which a range over a map with the keys D may run.
IterationOrders(D) ==
    {o \in [1..Cardinality(D) -> D] : \A a, b \in DOMAIN o : a # b => o[a] # o[b]}

InitCat ==
    /\ op = "countCitationsAndSort"
    /\ arg \in CitationMaps
    /\ pc = "call"
    /\ scan = None
    /\ ret = None
    /\ out = <<>>
    /\ enc = <<>>

\* countCitationsAndSort(citations), the whole call.
CountCitationsAndSort ==
    /\ pc = "call" /\ op = "countCitationsAndSort"
    /\ \E order \in IterationOrders(DOMAIN arg) :
          ret' = countCitationsAndSort(arg, order)
    /\ pc' = "done"
    /\ UNCHANGED <<op, arg, scan, out, enc>>

NextCat == CountCitationsAndSort

SpecCat == InitCat /\ [][NextCat]_vars

CatDone == pc = "done" /\ op = "countCitationsAndSort"

\* a comes before b byte by byte, or is a proper prefix of b.
BytewiseBefore(a, b) ==
    \/ Len(a) < Len(b) /\ SubSeq(b, 1, Len(a)) = a
    \/ \E k \in 1..Len(a) :
          /\ k <= Len(b)
          /\ SubSeq(a, 1, k - 1) = SubSeq(b, 1, k - 1)
          /\ ByteCode(a[k]) < ByteCode(b[k])

\* C2: the key slice is a permutation of the map's keys (each once, as many
\* as the map has) in ascending byte-wise order, whatever order the map was
\* walked in.
SortedKeysArePermutation ==
    CatDone =>
        /\ Len(ret[3]) = Cardinality(DOMAIN arg)
        /\ Range(ret[3]) = DOMAIN arg
        /\ \A a, b \in DOMAIN ret[3] : a < b => BytewiseBefore(ret[3][a], ret[3][b])

\* C2 witness: three keys were sorted, a key and a proper prefix of it
\* among them.
SortedThreeKeys ==
    /\ CatDone
    /\ Len(ret[3]) = 3
    /\ ret[3][2] = <<"R">>
    /\ ret[3][3] = <<"R", "a">>

\* C8: the first result is the number of informative citations, the second
\* the number of normative ones; their sum is at most the size of the map
\* and equals it exactly when every citation is informative or normative.
CountsAreClassTallies ==
    CatDone =>
        /\ ret[1] = Cardinality({k \in DOMAIN arg : arg[k].typ = "i"})
        /\ ret[2] = Cardinality({k \in DOMAIN arg : arg[k].typ = "n"})
        /\ ret[1] + ret[2] <= Cardinality(DOMAIN arg)
        /\ (ret[1] + ret[2] = Cardinality(DOMAIN arg)
              <=> \A k \in DOMAIN arg : arg[k].typ \in {"i", "n"})

\* C8 witness: a map with an informative, a normative and an unclassified
\* citation was counted.
CountedMixedClasses ==
    /\ CatDone
    /\ {arg[k].typ : k \in DOMAIN arg} = {"i", "n", "x"}
    /\ ret[1] = 1 /\ ret[2] = 1

(***************************************************************************)
(* Process instructions of the title block.                                *)
(***************************************************************************)
\* The value a header or footer holds when the title block does not set it.
piNotSet == "__mmark_toml_pi_not_set"

\* A yesno that hands any set value through.
yesnoVerbatim(s, def) == IF s = "" THEN def ELSE s

\* yesno(s, def)
yesno(s, def) ==
    IF s = "" THEN def
    ELSE IF s = "yes" THEN "yes"
    ELSE "no"

\* titleBlockTOMLPI(pi, name, version); the diagnostic printed for an unknown
\* name goes to the process's error stream and is no part of the result.
titleBlockTOMLPI(pi, name, version) ==
    IF version = 2
    THEN CASE name = "toc" -> "<?rfc toc=\"" \o yesno(pi.Toc, "yes") \o "\"?>\n"
           [] name = "symrefs" -> "<?rfc symrefs=\"" \o yesno(pi.Symrefs, "yes") \o "\"?>\n"
           [] name = "sortrefs" -> "<?rfc sortrefs=\"" \o yesno(pi.Sortrefs, "yes") \o "\"?>\n"
           [] name = "compact" -> "<?rfc compact=\"" \o yesno(pi.Compact, "yes") \o "\"?>\n"
           [] name = "topblock" -> "<?rfc topblock=\"" \o yesno(pi.Topblock, "yes") \o "\"?>\n"
           [] name = "comments" -> "<?rfc comments=\"" \o yesno(pi.Comments, "no") \o "\"?>\n"
           [] name = "subcompact" -> "<?rfc subcompact=\"" \o yesno(pi.Subcompact, "no") \o "\"?>\n"
           [] name = "private" -> "<?rfc private=\"" \o yesno(pi.Private, "") \o "\"?>\n"
           [] name = "header" ->
                IF pi.Header = piNotSet THEN ""
                ELSE "<?rfc header=\"" \o pi.Header \o "\"?>\n"
           [] name = "footer" ->
                IF pi.Footer = piNotSet THEN ""
                ELSE "<?rfc footer=\"" \o pi.Footer \o "\"?>\n"
           [] OTHER -> ""
    ELSE ""

PiFields ==
    {"Toc", "Symrefs", "Sortrefs", "Compact", "Topblock", "Comments",
     "Subcompact", "Private", "Header", "Footer"}

\* Unset, yes, no, a value that is neither, the not-set sentinel, a literal.
PiValues == {"", "yes", "no", "true", piNotSet, "Draft"}

\* Process-instruction sets: one field holds v, the others w.
PiSets ==
    {[f \in PiFields |-> IF f = g THEN v ELSE w] :
        g \in PiFields, v \in PiValues, w \in PiValues}

PiNames ==
    {"toc", "symrefs", "sortrefs", "compact", "topblock", "comments",
     "subcompact", "private", "header", "footer", "tocdepth"}

Versions == {2, 3}

InitPI ==
    /\ op = "titleBlockTOMLPI"
    /\ arg \in [pi : PiSets, name : PiNames, version : Versions]
    /\ pc = "call"
    /\ scan = None
    /\ ret = None
    /\ out = <<>>
    /\ enc = <<>>

\* titleBlockTOMLPI(pi, name, version), the whole call.
TitleBlockTOMLPI ==
    /\ pc = "call" /\ op = "titleBlockTOMLPI"
    /\ ret' = titleBlockTOMLPI(arg.pi, arg.name, arg.version)
    /\ pc' = "done"
    /\ UNCHANGED <<op, arg, scan, out, enc>>

NextPI == TitleBlockTOMLPI

SpecPI == InitPI /\ [][NextPI]_vars

PIDone == pc = "done" /\ op = "titleBlockTOMLPI"

\* The field of the process-instruction set a name reads.
PiFieldOf ==
    [toc |-> "Toc", symrefs |-> "Symrefs", sortrefs |-> "Sortrefs",
     compact |-> "Compact", topblock |-> "Topblock", comments |-> "Comments",
     subcompact |-> "Subcompact", private |-> "Private", header |-> "Header",
     footer |-> "Footer"]

PiToggles ==
    {"toc", "symrefs", "sortrefs", "compact", "topblock", "comments",
     "subcompact", "private"}

\* The defaults the claim names.
PiDefault ==
    [toc |-> "yes", symrefs |-> "yes", sortrefs |-> "yes", compact |-> "yes",
     topblock |-> "yes", comments |-> "no", subcompact |-> "no"]

PiLine(name, value) == "<?rfc " \o name \o "=\"" \o value \o "\"?>\n"

\* What C9 says of header, footer, unknown names and version 3.
PiOtherNames ==
    /\ (arg.version = 2 /\ arg.name \in {"header", "footer"}) =>
          ret = IF arg.pi[PiFieldOf[arg.name]] = piNotSet
                THEN ""
                ELSE PiLine(arg.name, arg.pi[PiFieldOf[arg.name]])
    /\ (arg.version = 2 /\ arg.name \notin DOMAIN PiFieldOf) => ret = ""
    /\ arg.version = 3 => ret = ""

\* What C9 says of a yes/no toggle with a named default.
PiToggleLine(set) ==
    \E v \in {"yes", "no"} :
        /\ ret = PiLine(arg.name, v)
        /\ (set = "" /\ arg.name \in DOMAIN PiDefault) => v = PiDefault[arg.name]
        /\ set = "yes" => v = "yes"
        /\ set \notin {"", "yes"} => v = "no"

Lit(s) == [src |-> "lit", text |-> s]

Raw(s) == [src |-> "raw", text |-> s]

\* out.WriteString(s) for a literal s.
WriteString(o, s) == Append(o, Lit(s))

\* out.WriteString of a string that is a field of the input, or the part of a
\* concatenation that is one.
WriteField(o, s) == Append(o, Raw(s))

\* writeEntity(out, []byte(s)) for a field s of the input.
WriteEntityField(o, s) == Append(o, [src |-> "enc", text |-> writeEntity(<<>>, s)])

\* The 0-based index of the first line break of s, or -1.
RECURSIVE IndexNewline(_, _)
IndexNewline(s, from) ==
    IF from >= Len(s) THEN -1
    ELSE IF s[from + 1] = "\n" THEN from
    ELSE IndexNewline(s, from + 1)

\* strings.Split(s, "\n")
RECURSIVE Split(_)
Split(s) ==
    IF IndexNewline(s, 0) = -1 THEN <<s>>
    ELSE <<SliceTo(s, IndexNewline(s, 0))>> \o Split(SliceFrom(s, IndexNewline(s, 0) + 1))

\* for _, x := range lines { WriteString(open); writeEntity(x); WriteString(close) }
RECURSIVE WriteLinesEncoded(_, _, _, _)
WriteLinesEncoded(o, lines, open, close) ==
    IF lines = <<>> THEN o
    ELSE WriteLinesEncoded(
             WriteString(WriteEntityField(WriteString(o, open), Head(lines)), close),
             Tail(lines), open, close)

\* for _, x := range lines { WriteString(open + x + close) }
RECURSIVE WriteLinesRaw(_, _, _, _)
WriteLinesRaw(o, lines, open, close) ==
    IF lines = <<>> THEN o
    ELSE WriteLinesRaw(
             WriteString(WriteField(WriteString(o, open), Head(lines)), close),
             Tail(lines), open, close)

\* titleBlockTOMLAuthor, up to the organization.
AuthorName(o, a) ==
    LET o1 == WriteString(o, "<author")
        o2 == WriteString(WriteEntityField(WriteString(o1, " initials=\""), a.Initials), "\"")
        o3 == WriteString(WriteEntityField(WriteString(o2, " surname=\""), a.Surname), "\"")
        o4 == WriteString(WriteEntityField(WriteString(o3, " fullname=\""), a.Fullname), "\">\n")
        o5 == IF a.OrganizationAbbrev # <<>>
              THEN WriteString(
                       WriteString(
                           WriteField(
                               WriteString(WriteString(o4, "<organization"), " abbrev=\""),
                               a.OrganizationAbbrev),
                           "\""),
                       ">")
              ELSE WriteString(WriteString(o4, "<organization"), ">")
    IN  WriteString(WriteEntityField(o5, a.Organization), "</organization>\n")

\* titleBlockTOMLAuthor, the address.
AuthorAddress(o, a) ==
    LET o1 == WriteString(WriteString(o, "<address>\n"), "<postal>\n")
        o2 == WriteLinesEncoded(o1, Split(a.Street), "<street>", "</street>\n")
        o3 == WriteLinesEncoded(o2, Split(a.City), "<city>", "</city>\n")
        o4 == WriteLinesRaw(o3, Split(a.Code), "<code>", "</code>\n")
        o5 == WriteLinesEncoded(o4, Split(a.Country), "<country>", "</country>\n")
        o6 == WriteString(o5, "</postal>\n")
        o7 == WriteString(WriteField(WriteString(o6, "<phone>"), a.Phone), "</phone>\n")
        o8 == WriteString(WriteField(WriteString(o7, "<email>"), a.Email), "</email>\n")
        o9 == WriteString(WriteField(WriteString(o8, "<uri>"), a.Uri), "</uri>\n")
    IN  WriteString(WriteString(o9, "</address>\n"), "</author>\n")

\* titleBlockTOMLAuthor(out, a); a's nested address is flattened into a.
titleBlockTOMLAuthor(o, a) == AuthorAddress(AuthorName(o, a), a)

\* titleBlockTOMLKeyword(out, keywords)
titleBlockTOMLKeyword(o, keywords) ==
    WriteLinesRaw(o, keywords, "<keyword>", "</keyword>\n")

MaxText == 2

MaxKeywords == 2

TextBytes == {"<", ">", "&", "a", "\n"}

Texts == SeqsUpTo(TextBytes, MaxText)

AuthorFields ==
    {"Initials", "Surname", "Fullname", "Organization", "OrganizationAbbrev",
     "Street", "City", "Code", "Country", "Phone", "Email", "Uri"}

\* Authors: one field holds t, the others are empty or hold "a".
Authors ==
    {[f \in AuthorFields |-> IF f = g THEN t ELSE u] :
        g \in AuthorFields, t \in Texts, u \in {<<>>, <<"a">>}}

KeywordLists == SeqsUpTo(Texts, MaxKeywords)

InitTitle ==
    /\ \/ op = "titleBlockTOMLAuthor" /\ arg \in Authors
       \/ op = "titleBlockTOMLKeyword" /\ arg \in KeywordLists
    /\ pc = "call"
    /\ scan = None
    /\ ret = None
    /\ out = <<>>
    /\ enc = <<>>

\* titleBlockTOMLAuthor(out, a), the whole call.
TitleBlockTOMLAuthor ==
    /\ pc = "call" /\ op = "titleBlockTOMLAuthor"
    /\ out' = titleBlockTOMLAuthor(out, arg)
    /\ pc' = "done"
    /\ UNCHANGED <<op, arg, scan, ret, enc>>

\* titleBlockTOMLKeyword(out, keywords), the whole call.
TitleBlockTOMLKeyword ==
    /\ pc = "call" /\ op = "titleBlockTOMLKeyword"
    /\ out' = titleBlockTOMLKeyword(out, arg)
    /\ pc' = "done"
    /\ UNCHANGED <<op, arg, scan, ret, enc>>

NextTitle == TitleBlockTOMLAuthor \/ TitleBlockTOMLKeyword

SpecTitle == InitTitle /\ [][NextTitle]_vars

\* C3: in what titleBlockTOMLAuthor and titleBlockTOMLKeyword write, no '<',
\* '>' or '&' of an input field stands other than as &lt;, &gt; or &amp;: a
\* field written as it is holds none of the three, and a field written by
\* writeEntity holds them as entities only.
TitleBlockEscapesEveryField ==
    pc = "done" =>
        \A k \in DOMAIN out :
            /\ out[k].src = "raw" => Range(out[k].text) \cap {"<", ">", "&"} = {}
            /\ out[k].src = "enc" => NoBareMarkup(out[k].text)

=============================================================================
